---- MODULE Spec2Model ----
(***************************************************************************)
(* ossp_slave_process_command (src/ossp-slave.c:81-198): one request /     *)
(* reply cycle of an OSS proxy slave over its command channel, repeated by *)
(* the caller.  The four static scratch buffers persist across calls; all  *)
(* other variables are the locals of one invocation, plus a log of the     *)
(* externally visible events of that invocation (reads, reallocations,     *)
(* hook and handler calls, writes).                                        *)
(***************************************************************************)
EXTENDS Integers, Sequences, FiniteSets

\* ---------------------------------------------------------------- bounds
\* Largest dout_size a request header carries in the model.
MaxSize == 2
\* Largest din_size a request header carries in the model.
MaxDinSize == 1

\* ------------------------------------------------------------- constants
EINVAL == 22
ENOMEM == 12
EIO == 5
\* cmsg_buf holds CMSG_SPACE(sizeof(fd)): room for one control message,
\* whose data area, sizeof(int) rounded up to the alignment of a cmsghdr,
\* has room for two descriptors.
MaxCmsgs == 1
MaxFdsPerCmsg == 2

OSSP_CMD_MAGIC == "OSSP_CMD_MAGIC"
OSSP_REPLY_MAGIC == "OSSP_REPLY_MAGIC"
\* sizeof(struct ossp_cmd): magic, opcode, din_size, dout_size.
SizeofCmd == 4 * 4

\* The per-opcode table (declared in ossp.h, defined outside src/): opcode
\* op is entry op + 1.
ossp_arg_sizes ==
  << [carg_size |-> 1, rarg_size |-> 1, has_fd |-> FALSE],
     [carg_size |-> 0, rarg_size |-> 0, has_fd |-> TRUE],
     [carg_size |-> 0, rarg_size |-> 1, has_fd |-> FALSE] >>
OSSP_NR_OPCODES == Len(ossp_arg_sizes)

\* action_fn_tbl, the caller's handler table: the opcodes with a non-NULL
\* entry.
action_fn_tbl == {0, 1}

\* Descriptor numbers recvmsg installs for an SCM_RIGHTS message, in the
\* order of the message's data.
PassedFds == <<3, 4>>
\* errno values of a failed recvmsg.
RecvErrnos == {104}
\* Values the acquire hook may return (int).
ActionPreResults == {-16, 0, 1}
\* Values a handler may return.
ActionFnResults == {-5, 0, 2}
\* Values a handler may leave in *dout_szp.
ActionFnDoutSizes == 0 .. (MaxSize + 1)

Bufs == <<"carg", "din", "rarg", "dout">>

VARIABLES
  pc,         \* position in ossp_slave_process_command ("idle": not called yet;
              \* "done": returned)
  sbuf,       \* the four static sized_bufs: capacity and, byte by byte, the
              \* origin of the contents ("uninit", "chan": read from the
              \* channel, "cur": left by this call's handler, "old": by an
              \* earlier one's)
  nrecv,      \* return value of recvmsg
  cmsgs,      \* control messages received with the header
  cmd,        \* struct ossp_cmd as received
  fd,         \* local fd
  sizes,      \* locals carg_size, din_size, rarg_size, dout_size
  ptrs,       \* locals carg, din, rarg, dout: "NULL" or "buf"
  ret,        \* local ret
  reply,      \* struct ossp_reply
  retval,     \* value returned to the caller
  log         \* events of this invocation, in order

vars == <<pc, sbuf, nrecv, cmsgs, cmd, fd, sizes, ptrs, ret, reply, retval, log>>

NoCmd == [magic |-> "-", opcode |-> 0, din_size |-> 0, dout_size |-> 0]
NoSizes == [carg |-> 0, din |-> 0, rarg |-> 0, dout |-> 0]
NoPtrs == [carg |-> "NULL", din |-> "NULL", rarg |-> "NULL", dout |-> "NULL"]
Reply0 == [magic |-> OSSP_REPLY_MAGIC, result |-> 0, dout_size |-> 0]

\* One logged event.  ev: "grow" (a scratch buffer reallocated), "read",
\* "pre", "fn", "post", "write"; sec: the section or buffer; n: bytes moved
\* (or the new capacity); ok: the operation succeeded; val: a result value
\* (the header's) or header dout_size; data: origin of the bytes written,
\* byte by byte (of a handler call: whether it wrote its output buffers);
\* fd: the descriptor argument of a handler call.
Ev(ev, sec, n, ok, val, data, f) ==
  [ev |-> ev, sec |-> sec, n |-> n, ok |-> ok, val |-> val, data |-> data,
   fd |-> f]

Cmds ==
  [magic : {OSSP_CMD_MAGIC, "garbage"},
   opcode : 0 .. OSSP_NR_OPCODES,
   din_size : 0 .. MaxDinSize,
   dout_size : 0 .. MaxSize]

\* The control messages recvmsg can deliver: an SCM_RIGHTS message with the
\* descriptors installed for it, or a message of another kind.
Cmsgs ==
  {[type |-> "SCM_RIGHTS", fds |-> SubSeq(PassedFds, 1, k)] :
     k \in 1 .. MaxFdsPerCmsg}
    \cup {[type |-> "other", fds |-> << >>]}
CmsgLists == UNION {[1 .. n -> Cmsgs] : n \in 0 .. MaxCmsgs}

Init ==
  /\ pc = "idle"
  /\ sbuf = [b \in {"carg", "din", "rarg", "dout"} |->
               [size |-> 0, data |-> << >>]]
  /\ nrecv = 0
  /\ cmsgs = << >>
  /\ cmd = NoCmd
  /\ fd = -1
  /\ sizes = NoSizes
  /\ ptrs = NoPtrs
  /\ ret = 0
  /\ reply = Reply0
  /\ retval = 0
  /\ log = << >>

\* Age for scratch buffers that are not static: every call starts with
\* empty ones.
Age_NotStatic(sb) == [b \in DOMAIN sb |-> [size |-> 0, data |-> << >>]]

\* Bytes a handler left in a buffer during an earlier call are stale in
\* the next one; bytes read from the channel stay as they are.
Age(sb) ==
  [b \in DOMAIN sb |->
     [sb[b] EXCEPT !.data =
        [i \in DOMAIN @ |-> IF @[i] = "cur" THEN "old" ELSE @[i]]]]

\* The caller's loop: the invocation is over and its locals are gone.
CallerLoop ==
  /\ pc = "done"
  /\ pc' = "idle"
  /\ sbuf' = Age(sbuf)
  /\ nrecv' = 0
  /\ cmsgs' = << >>
  /\ cmd' = NoCmd
  /\ fd' = -1
  /\ sizes' = NoSizes
  /\ ptrs' = NoPtrs
  /\ ret' = 0
  /\ reply' = Reply0
  /\ retval' = 0
  /\ log' = << >>

\* Entry, locals' initialisers (lines 86-99) and recvmsg (line 101).
Recv ==
  /\ pc = "idle"
  /\ \E n \in {-1, 0, SizeofCmd - 4, SizeofCmd}, c \in Cmds, m \in CmsgLists :
       /\ n # SizeofCmd => c = [NoCmd EXCEPT !.magic = "garbage"]
       /\ n <= 0 => m = << >>
       /\ nrecv' = n
       /\ cmd' = c
       /\ cmsgs' = m
  /\ fd' = -1
  /\ sizes' = NoSizes
  /\ ptrs' = NoPtrs
  /\ ret' = 0
  /\ reply' = Reply0
  /\ retval' = 0
  /\ log' = << >>
  /\ pc' = "recv"
  /\ UNCHANGED sbuf

Return(v) ==
  /\ retval' = v
  /\ pc' = "done"

\* CheckRecv with a failed recvmsg taken for a closed channel.
CheckRecv_ErrorIsClose ==
  /\ pc = "recv"
  /\ IF nrecv <= 0
       THEN /\ Return(0)
            /\ ret' = nrecv
       ELSE /\ ret' = nrecv
            /\ pc' = "check_size"
            /\ UNCHANGED retval
  /\ UNCHANGED <<sbuf, nrecv, cmsgs, cmd, fd, sizes, ptrs, reply, log>>

\* Lines 102-108.
CheckRecv ==
  /\ pc = "recv"
  /\ IF nrecv = 0
       THEN /\ Return(0)
            /\ ret' = nrecv
       ELSE IF nrecv < 0
         THEN \E e \in RecvErrnos :
                /\ ret' = -e
                /\ Return(-e)
         ELSE /\ ret' = nrecv
              /\ pc' = "check_size"
              /\ UNCHANGED retval
  /\ UNCHANGED <<sbuf, nrecv, cmsgs, cmd, fd, sizes, ptrs, reply, log>>

\* Lines 110-114.
CheckSize ==
  /\ pc = "check_size"
  /\ IF ret # SizeofCmd THEN Return(-EINVAL)
     ELSE /\ pc' = "check_magic"
          /\ UNCHANGED retval
  /\ UNCHANGED <<sbuf, nrecv, cmsgs, cmd, fd, sizes, ptrs, ret, reply, log>>

\* CheckMagic with the magic test left out.
CheckMagic_Ignore ==
  /\ pc = "check_magic"
  /\ pc' = "cmsg"
  /\ UNCHANGED <<sbuf, nrecv, cmsgs, cmd, fd, sizes, ptrs, ret, reply, retval,
                 log>>

\* Lines 116-119.
CheckMagic ==
  /\ pc = "check_magic"
  /\ IF cmd.magic # OSSP_CMD_MAGIC THEN Return(-EINVAL)
     ELSE /\ pc' = "cmsg"
          /\ UNCHANGED retval
  /\ UNCHANGED <<sbuf, nrecv, cmsgs, cmd, fd, sizes, ptrs, ret, reply, log>>


\* The cmsg loop of lines 121-131 from message i on: the fd it leaves and
\* whether it met a message that is not SOL_SOCKET/SCM_RIGHTS.  Line 125
\* takes the first int of the message's data, however many it carries.
RECURSIVE CmsgLoop(_, _, _)
CmsgLoop(ms, i, f) ==
  IF i > Len(ms) THEN [fd |-> f, bad |-> FALSE]
  ELSE IF ms[i].type = "SCM_RIGHTS" THEN CmsgLoop(ms, i + 1, ms[i].fds[1])
  ELSE [fd |-> f, bad |-> TRUE]

\* Lines 121-131.
ParseCmsg ==
  /\ pc = "cmsg"
  /\ LET r == CmsgLoop(cmsgs, 1, fd) IN
       /\ fd' = r.fd
       /\ IF r.bad THEN Return(-EINVAL)
          ELSE /\ pc' = "check_opcode"
               /\ UNCHANGED retval
  /\ UNCHANGED <<sbuf, nrecv, cmsgs, cmd, sizes, ptrs, ret, reply, log>>

\* CheckOpcode that reports an unknown opcode with another code.
CheckOpcode_WrongCode ==
  /\ pc = "check_opcode"
  /\ IF cmd.opcode >= OSSP_NR_OPCODES THEN Return(-EIO)
     ELSE /\ pc' = "check_fd"
          /\ UNCHANGED retval
  /\ UNCHANGED <<sbuf, nrecv, cmsgs, cmd, fd, sizes, ptrs, ret, reply, log>>

\* Lines 133-136.
CheckOpcode ==
  /\ pc = "check_opcode"
  /\ IF cmd.opcode >= OSSP_NR_OPCODES THEN Return(-EINVAL)
     ELSE /\ pc' = "check_fd"
          /\ UNCHANGED retval
  /\ UNCHANGED <<sbuf, nrecv, cmsgs, cmd, fd, sizes, ptrs, ret, reply, log>>

ArgSizes(opcode) == ossp_arg_sizes[opcode + 1]

\* FdMismatch that only rejects a descriptor nobody asked for.
FdMismatch_UnexpectedOnly(f, opcode) == (f >= 0) /\ ~ArgSizes(opcode).has_fd

\* Lines 143-146: the test (fd >= 0) != has_fd.
FdMismatch(f, opcode) == (f >= 0) # ArgSizes(opcode).has_fd

\* CheckFd that takes the fixed-arg-in size from the table's rarg_size.
CheckFd_SwapArgSizes ==
  /\ pc = "check_fd"
  /\ sizes' = [carg |-> ArgSizes(cmd.opcode).rarg_size,
               din |-> cmd.din_size,
               rarg |-> ArgSizes(cmd.opcode).rarg_size,
               dout |-> cmd.dout_size]
  /\ IF FdMismatch(fd, cmd.opcode) THEN Return(-EINVAL)
     ELSE /\ pc' = "stage"
          /\ UNCHANGED retval
  /\ UNCHANGED <<sbuf, nrecv, cmsgs, cmd, fd, ptrs, ret, reply, log>>

\* Lines 138-146.
CheckFd ==
  /\ pc = "check_fd"
  /\ sizes' = [carg |-> ArgSizes(cmd.opcode).carg_size,
               din |-> cmd.din_size,
               rarg |-> ArgSizes(cmd.opcode).rarg_size,
               dout |-> cmd.dout_size]
  /\ IF FdMismatch(fd, cmd.opcode) THEN Return(-EINVAL)
     ELSE /\ pc' = "stage"
          /\ UNCHANGED retval
  /\ UNCHANGED <<sbuf, nrecv, cmsgs, cmd, fd, ptrs, ret, reply, log>>

\* ensure_sbuf_size when the allocator delivers: the buffer is left as it is
\* when it is large enough, and is reallocated to the size asked otherwise,
\* keeping the bytes it had; the bytes added are uninitialized.
ensure_sbuf_size(sb, size) ==
  IF sb.size >= size THEN sb
  ELSE [size |-> size,
        data |-> [i \in 1 .. size |->
                    IF i <= sb.size THEN sb.data[i] ELSE "uninit"]]

\* The reallocations of the first k calls of lines 148-151, in order.
RECURSIVE GrowLog(_, _, _)
GrowLog(sb, sz, k) ==
  IF k = 0 THEN << >>
  ELSE GrowLog(sb, sz, k - 1) \o
       (IF sb[Bufs[k]].size >= sz[Bufs[k]] THEN << >>
        ELSE << Ev("grow", Bufs[k], sz[Bufs[k]], TRUE, 0, "-", -1) >>)

BufIndex(b) == CHOOSE i \in 1 .. Len(Bufs) : Bufs[i] = b

\* StageBuffers that reports a failed allocation as an invalid request.
StageBuffers_FailureAsEINVAL ==
  /\ pc = "stage"
  /\ \E failAt \in 0 .. Len(Bufs) :
       /\ failAt > 0 => sbuf[Bufs[failAt]].size < sizes[Bufs[failAt]]
       /\ LET made == IF failAt = 0 THEN Len(Bufs) ELSE failAt - 1 IN
            /\ sbuf' = [b \in DOMAIN sbuf |->
                          IF BufIndex(b) <= made
                            THEN ensure_sbuf_size(sbuf[b], sizes[b])
                            ELSE sbuf[b]]
            /\ log' = log \o GrowLog(sbuf, sizes, made) \o
                 (IF failAt = 0 THEN << >>
                  ELSE << Ev("grow", Bufs[failAt], sizes[Bufs[failAt]], FALSE,
                             0, "-", -1) >>)
       /\ IF failAt > 0 THEN Return(-EINVAL)
          ELSE /\ pc' = "read_carg"
               /\ UNCHANGED retval
  /\ UNCHANGED <<nrecv, cmsgs, cmd, fd, sizes, ptrs, ret, reply>>

\* StageBuffers that goes on to read the payload after a failed allocation.
StageBuffers_IgnoreFailure ==
  /\ pc = "stage"
  /\ \E failAt \in 0 .. Len(Bufs) :
       /\ failAt > 0 => sbuf[Bufs[failAt]].size < sizes[Bufs[failAt]]
       /\ LET made == IF failAt = 0 THEN Len(Bufs) ELSE failAt - 1 IN
            /\ sbuf' = [b \in DOMAIN sbuf |->
                          IF BufIndex(b) <= made
                            THEN ensure_sbuf_size(sbuf[b], sizes[b])
                            ELSE sbuf[b]]
            /\ log' = log \o GrowLog(sbuf, sizes, made) \o
                 (IF failAt = 0 THEN << >>
                  ELSE << Ev("grow", Bufs[failAt], sizes[Bufs[failAt]], FALSE,
                             0, "-", -1) >>)
       /\ pc' = "read_carg"
       /\ UNCHANGED retval
  /\ UNCHANGED <<nrecv, cmsgs, cmd, fd, sizes, ptrs, ret, reply>>

\* Lines 148-154.  failAt is the first call of ensure_sbuf_size that fails
\* (0: none does); a call can only fail when it has to reallocate, and the
\* calls after it are not made.
StageBuffers ==
  /\ pc = "stage"
  /\ \E failAt \in 0 .. Len(Bufs) :
       /\ failAt > 0 => sbuf[Bufs[failAt]].size < sizes[Bufs[failAt]]
       /\ LET made == IF failAt = 0 THEN Len(Bufs) ELSE failAt - 1 IN
            /\ sbuf' = [b \in DOMAIN sbuf |->
                          IF BufIndex(b) <= made
                            THEN ensure_sbuf_size(sbuf[b], sizes[b])
                            ELSE sbuf[b]]
            /\ log' = log \o GrowLog(sbuf, sizes, made) \o
                 (IF failAt = 0 THEN << >>
                  ELSE << Ev("grow", Bufs[failAt], sizes[Bufs[failAt]], FALSE,
                             0, "-", -1) >>)
       /\ IF failAt > 0 THEN Return(-ENOMEM)
          ELSE /\ pc' = "read_carg"
               /\ UNCHANGED retval
  /\ UNCHANGED <<nrecv, cmsgs, cmd, fd, sizes, ptrs, ret, reply>>

\* read_fill(fd, buf, n): the outcomes of an exact read of n bytes, as the
\* bytes taken from the channel and the value returned.
read_fill(n) ==
  {[n |-> n, ret |-> 0]} \cup {[n |-> k, ret |-> -EIO] : k \in 0 .. (n - 1)}

\* The buffer read_fill was given as its destination, after it took k bytes
\* from the channel.
Filled(sb, k) ==
  [sb EXCEPT !.data = [i \in DOMAIN @ |-> IF i <= k THEN "chan" ELSE @[i]]]

\* Lines 156-161.
ReadCarg ==
  /\ pc = "read_carg"
  /\ IF sizes.carg # 0
       THEN \E r \in read_fill(sizes.carg) :
              /\ ptrs' = [ptrs EXCEPT !.carg = "buf"]
              /\ sbuf' = [sbuf EXCEPT !.carg = Filled(@, r.n)]
              /\ ret' = r.ret
              /\ log' = Append(log, Ev("read", "carg", r.n, r.ret >= 0, r.ret,
                                       "-", -1))
              /\ IF r.ret < 0 THEN Return(r.ret)
                 ELSE /\ pc' = "read_din"
                      /\ UNCHANGED retval
       ELSE /\ pc' = "read_din"
            /\ UNCHANGED <<sbuf, ptrs, ret, log, retval>>
  /\ UNCHANGED <<nrecv, cmsgs, cmd, fd, sizes, reply>>

\* ReadDin that dispatches whatever read_fill returned.
ReadDin_IgnoreFailure ==
  /\ pc = "read_din"
  /\ IF sizes.din # 0
       THEN \E r \in read_fill(sizes.din) :
              /\ ptrs' = [ptrs EXCEPT !.din = "buf"]
              /\ sbuf' = [sbuf EXCEPT !.din = Filled(@, r.n)]
              /\ ret' = r.ret
              /\ log' = Append(log, Ev("read", "din", r.n, r.ret >= 0, r.ret,
                                       "-", -1))
              /\ pc' = "out_ptrs"
              /\ UNCHANGED retval
       ELSE /\ pc' = "out_ptrs"
            /\ UNCHANGED <<sbuf, ptrs, ret, log, retval>>
  /\ UNCHANGED <<nrecv, cmsgs, cmd, fd, sizes, reply>>

\* Lines 162-167.
ReadDin ==
  /\ pc = "read_din"
  /\ IF sizes.din # 0
       THEN \E r \in read_fill(sizes.din) :
              /\ ptrs' = [ptrs EXCEPT !.din = "buf"]
              /\ sbuf' = [sbuf EXCEPT !.din = Filled(@, r.n)]
              /\ ret' = r.ret
              /\ log' = Append(log, Ev("read", "din", r.n, r.ret >= 0, r.ret,
                                       "-", -1))
              /\ IF r.ret < 0 THEN Return(r.ret)
                 ELSE /\ pc' = "out_ptrs"
                      /\ UNCHANGED retval
       ELSE /\ pc' = "out_ptrs"
            /\ UNCHANGED <<sbuf, ptrs, ret, log, retval>>
  /\ UNCHANGED <<nrecv, cmsgs, cmd, fd, sizes, reply>>

\* SetOutPtrs without the initialisation ret = -EINVAL of line 173.
SetOutPtrs_NoRetInit ==
  /\ pc = "out_ptrs"
  /\ ptrs' = [ptrs EXCEPT !.rarg = IF sizes.rarg # 0 THEN "buf" ELSE "NULL",
                          !.dout = IF sizes.dout # 0 THEN "buf" ELSE "NULL"]
  /\ pc' = "dispatch"
  /\ UNCHANGED <<sbuf, nrecv, cmsgs, cmd, fd, sizes, ret, reply, retval, log>>

\* Lines 168-173.
SetOutPtrs ==
  /\ pc = "out_ptrs"
  /\ ptrs' = [ptrs EXCEPT !.rarg = IF sizes.rarg # 0 THEN "buf" ELSE "NULL",
                          !.dout = IF sizes.dout # 0 THEN "buf" ELSE "NULL"]
  /\ ret' = -EINVAL
  /\ pc' = "dispatch"
  /\ UNCHANGED <<sbuf, nrecv, cmsgs, cmd, fd, sizes, reply, retval, log>>

\* Lines 173-174, no handler registered: ret stays -EINVAL.
NoHandler ==
  /\ pc = "dispatch"
  /\ cmd.opcode \notin action_fn_tbl
  /\ pc' = "reply"
  /\ UNCHANGED <<sbuf, nrecv, cmsgs, cmd, fd, sizes, ptrs, ret, reply, retval,
                 log>>

\* Lines 174-176: the acquire hook.
ActionPre ==
  /\ pc = "dispatch"
  /\ cmd.opcode \in action_fn_tbl
  /\ \E r \in ActionPreResults :
       /\ ret' = r
       /\ log' = Append(log, Ev("pre", "-", 0, r = 0, r, "-", -1))
       /\ pc' = IF r = 0 THEN "fn" ELSE "reply"
  /\ UNCHANGED <<sbuf, nrecv, cmsgs, cmd, fd, sizes, ptrs, reply, retval>>

\* A handler filling the n bytes of an output buffer it was given.
HandlerWrite(sb, n) ==
  [sb EXCEPT !.data = [i \in DOMAIN @ |-> IF i <= n THEN "cur" ELSE @[i]]]

\* ActionFn that leaves the bracket without the release hook when the
\* handler fails.
ActionFn_NoPostOnError ==
  /\ pc = "fn"
  /\ \E r \in ActionFnResults, out \in ActionFnDoutSizes, w \in BOOLEAN :
       /\ ret' = r
       /\ sizes' = [sizes EXCEPT !.dout = out]
       /\ sbuf' = [b \in DOMAIN sbuf |->
                     IF w /\ b \in {"rarg", "dout"} /\ ptrs[b] = "buf"
                       THEN HandlerWrite(sbuf[b], sizes[b])
                       ELSE sbuf[b]]
       /\ log' = Append(log, Ev("fn", "-", out, r >= 0, r,
                                IF w THEN "cur" ELSE "-", fd))
       /\ pc' = IF r < 0 THEN "reply" ELSE "post"
  /\ UNCHANGED <<nrecv, cmsgs, cmd, fd, ptrs, reply, retval>>

\* Lines 177-179: the handler.  It returns r, leaves out in *dout_szp and,
\* when w, fills the output buffers it was given: rarg_size bytes of rarg,
\* and of dout the dout_size bytes *dout_szp held on entry.
ActionFn ==
  /\ pc = "fn"
  /\ \E r \in ActionFnResults, out \in ActionFnDoutSizes, w \in BOOLEAN :
       /\ ret' = r
       /\ sizes' = [sizes EXCEPT !.dout = out]
       /\ sbuf' = [b \in DOMAIN sbuf |->
                     IF w /\ b \in {"rarg", "dout"} /\ ptrs[b] = "buf"
                       THEN HandlerWrite(sbuf[b], sizes[b])
                       ELSE sbuf[b]]
       /\ log' = Append(log, Ev("fn", "-", out, r >= 0, r,
                                IF w THEN "cur" ELSE "-", fd))
  /\ pc' = "post"
  /\ UNCHANGED <<nrecv, cmsgs, cmd, fd, ptrs, reply, retval>>

\* Line 180: the release hook.
ActionPost ==
  /\ pc = "post"
  /\ log' = Append(log, Ev("post", "-", 0, TRUE, 0, "-", -1))
  /\ pc' = "reply"
  /\ UNCHANGED <<sbuf, nrecv, cmsgs, cmd, fd, sizes, ptrs, ret, reply, retval>>

\* BuildReply that reports every failure as -1.
BuildReply_FlattenErrors ==
  /\ pc = "reply"
  /\ IF ret >= 0
       THEN /\ reply' = [reply EXCEPT !.result = ret, !.dout_size = sizes.dout]
            /\ UNCHANGED sizes
       ELSE /\ reply' = [reply EXCEPT !.result = -1]
            /\ sizes' = [sizes EXCEPT !.rarg = 0, !.dout = 0]
  /\ pc' = "write_hdr"
  /\ UNCHANGED <<sbuf, nrecv, cmsgs, cmd, fd, ptrs, ret, retval, log>>

\* BuildReply that keeps the section lengths when the result is negative.
BuildReply_NoZero ==
  /\ pc = "reply"
  /\ reply' = [reply EXCEPT !.result = ret, !.dout_size = sizes.dout]
  /\ pc' = "write_hdr"
  /\ UNCHANGED <<sbuf, nrecv, cmsgs, cmd, fd, sizes, ptrs, ret, retval, log>>

\* Lines 184-190.
BuildReply ==
  /\ pc = "reply"
  /\ IF ret >= 0
       THEN /\ reply' = [reply EXCEPT !.result = ret, !.dout_size = sizes.dout]
            /\ UNCHANGED sizes
       ELSE /\ reply' = [reply EXCEPT !.result = ret]
            /\ sizes' = [sizes EXCEPT !.rarg = 0, !.dout = 0]
  /\ pc' = "write_hdr"
  /\ UNCHANGED <<sbuf, nrecv, cmsgs, cmd, fd, ptrs, ret, retval, log>>

\* The n bytes at the start of a buffer: its own bytes and, past its end,
\* whatever lies behind it.
Bytes(sb, n) ==
  [i \in 1 .. n |-> IF i <= sb.size THEN sb.data[i] ELSE "overread"]

\* write_fill(fd, buf, n): the outcomes of an exact write of the n bytes at
\* buf.  Nothing is written for n = 0; a NULL buffer cannot be written
\* from; a write past the end of the buffer sends what lies there, or
\* faults.
write_fill(ptr, n, bytes) ==
  IF n = 0 THEN {[ok |-> TRUE, data |-> << >>]}
  ELSE IF ptr = "NULL" THEN {[ok |-> FALSE, data |-> << >>]}
  ELSE {[ok |-> FALSE, data |-> << >>], [ok |-> TRUE, data |-> bytes]}

\* sizeof(struct ossp_reply): magic, result, dout_size.
SizeofReply == 3 * 4

\* WriteHeader that goes on to the sections after a failed header write.
WriteHeader_IgnoreFailure ==
  /\ pc = "write_hdr"
  /\ \E w \in write_fill("buf", SizeofReply, <<reply.magic>>) :
       /\ log' = Append(log, Ev("write", "hdr", reply.dout_size, w.ok,
                                reply.result, w.data, -1))
       /\ pc' = "write_rarg"
       /\ UNCHANGED retval
  /\ UNCHANGED <<sbuf, nrecv, cmsgs, cmd, fd, sizes, ptrs, ret, reply>>

\* Line 192.
WriteHeader ==
  /\ pc = "write_hdr"
  /\ \E w \in write_fill("buf", SizeofReply, <<reply.magic>>) :
       /\ log' = Append(log, Ev("write", "hdr", reply.dout_size, w.ok,
                                reply.result, w.data, -1))
       /\ IF w.ok THEN /\ pc' = "write_rarg"
                       /\ UNCHANGED retval
          ELSE Return(-EIO)
  /\ UNCHANGED <<sbuf, nrecv, cmsgs, cmd, fd, sizes, ptrs, ret, reply>>

\* Line 193.
WriteRarg ==
  /\ pc = "write_rarg"
  /\ \E w \in write_fill(ptrs.rarg, sizes.rarg, Bytes(sbuf.rarg, sizes.rarg)) :
       /\ log' = IF sizes.rarg = 0 THEN log
                 ELSE Append(log, Ev("write", "rarg", sizes.rarg, w.ok, 0,
                                     w.data, -1))
       /\ IF w.ok THEN /\ pc' = "write_dout"
                       /\ UNCHANGED retval
          ELSE Return(-EIO)
  /\ UNCHANGED <<sbuf, nrecv, cmsgs, cmd, fd, sizes, ptrs, ret, reply>>

\* WriteDout that reports the command as processed whatever the last write
\* did.
WriteDout_IgnoreFailure ==
  /\ pc = "write_dout"
  /\ \E w \in write_fill(ptrs.dout, sizes.dout, Bytes(sbuf.dout, sizes.dout)) :
       /\ log' = IF sizes.dout = 0 THEN log
                 ELSE Append(log, Ev("write", "dout", sizes.dout, w.ok, 0,
                                     w.data, -1))
       /\ Return(1)
  /\ UNCHANGED <<sbuf, nrecv, cmsgs, cmd, fd, sizes, ptrs, ret, reply>>

\* Lines 194-197.
WriteDout ==
  /\ pc = "write_dout"
  /\ \E w \in write_fill(ptrs.dout, sizes.dout, Bytes(sbuf.dout, sizes.dout)) :
       /\ log' = IF sizes.dout = 0 THEN log
                 ELSE Append(log, Ev("write", "dout", sizes.dout, w.ok, 0,
                                     w.data, -1))
       /\ IF w.ok THEN Return(1) ELSE Return(-EIO)
  /\ UNCHANGED <<sbuf, nrecv, cmsgs, cmd, fd, sizes, ptrs, ret, reply>>

Next ==
  \/ CallerLoop
  \/ Recv
  \/ CheckRecv
  \/ CheckSize
  \/ CheckMagic
  \/ ParseCmsg
  \/ CheckOpcode
  \/ CheckFd
  \/ StageBuffers
  \/ ReadCarg
  \/ ReadDin
  \/ SetOutPtrs
  \/ NoHandler
  \/ ActionPre
  \/ ActionFn
  \/ ActionPost
  \/ BuildReply
  \/ WriteHeader
  \/ WriteRarg
  \/ WriteDout

Spec == Init /\ [][Next]_vars

\* ------------------------------------------------------------ properties

\* Positions in the log of the events of one kind.
Events(e) == {i \in DOMAIN log : log[i].ev = e}
\* Positions of the writes of one section.
Writes(sec) == {i \in Events("write") : log[i].sec = sec}

\* What the peer sent, read off the received message alone.
HasRights == \E i \in DOMAIN cmsgs : cmsgs[i].type = "SCM_RIGHTS"
HasOtherCmsg == \E i \in DOMAIN cmsgs : cmsgs[i].type # "SCM_RIGHTS"
HeaderOk ==
  /\ nrecv = SizeofCmd
  /\ cmd.magic = OSSP_CMD_MAGIC
  /\ cmd.opcode < OSSP_NR_OPCODES
DescriptorMismatch == ossp_arg_sizes[cmd.opcode + 1].has_fd # HasRights
ValidRequest == HeaderOk /\ ~HasOtherCmsg /\ ~DescriptorMismatch

\* Positions of the invocation before buffer staging.
ValidationPcs ==
  {"recv", "check_size", "check_magic", "cmsg", "check_opcode", "check_fd"}
\* Positions from the reply on.
ReplyPcs == {"reply", "write_hdr", "write_rarg", "write_dout"}
\* The invocation has been through the Invoke step.
PastInvoke == pc \in ReplyPcs \/ (pc = "done" /\ Writes("hdr") # {})

\* C1 (error suppresses payload): whenever the command result ret is
\* negative, whether it comes from the handler, the acquire hook or the
\* missing handler, the reply header has dout_size = 0 and carries that
\* result, and no arg-out or data-out write is made, whatever length the
\* handler stored and whatever it wrote in its buffers.
C1_ErrorSuppressesPayload ==
  ret < 0 =>
    /\ reply.dout_size = 0
    /\ \A i \in Events("write") :
         log[i].sec = "hdr" /\ log[i].n = 0 /\ log[i].val = ret

\* A processed command whose handler failed after writing its output
\* buffers and storing a non-zero output length.
C1_Witness ==
  /\ pc = "done"
  /\ retval = 1
  /\ ret < 0
  /\ sizes.rarg = 0
  /\ \E i \in Events("fn") : log[i].n > 0 /\ log[i].data = "cur" /\ log[i].val < 0
  /\ ArgSizes(cmd.opcode).rarg_size > 0

\* C2 (bracket invariant): in an invocation with a registered handler that
\* has been through Invoke, the acquire hook was called exactly once; when
\* it returned 0 the handler was called exactly once and the release hook
\* exactly once, after the handler, whatever the handler returned; when it
\* returned anything else neither the handler nor the release hook was
\* called.  At every moment the calls made so far are a prefix of
\* acquire, handler, release.
C2_BracketInvariant ==
  LET pre == Events("pre")
      fn == Events("fn")
      post == Events("post")
  IN
    /\ Cardinality(pre) <= 1
    /\ Cardinality(fn) <= 1
    /\ Cardinality(post) <= 1
    /\ \A i \in fn : \E j \in pre : j < i /\ log[j].val = 0
    /\ \A i \in post : \E j \in fn : j < i
    /\ (cmd.opcode \in action_fn_tbl /\ PastInvoke) =>
         /\ Cardinality(pre) = 1
         /\ \A j \in pre :
              IF log[j].val = 0
                THEN Cardinality(fn) = 1 /\ Cardinality(post) = 1
                ELSE fn = {} /\ post = {}

\* A finished invocation whose handler failed and was still released.
C2_Witness ==
  /\ pc = "done"
  /\ \E i \in Events("fn") : log[i].val < 0
  /\ Events("post") # {}

\* C3 (descriptor gating): for a header of the right size with the right
\* magic and an opcode in range, when the opcode's has_fd differs from
\* whether a descriptor came with the request, the invocation never gets
\* past validation, returns -EINVAL, and calls no hook and no handler.
C3_DescriptorGating ==
  (HeaderOk /\ DescriptorMismatch) =>
    /\ pc \in ValidationPcs \cup {"done"}
    /\ pc = "done" => retval = -EINVAL
    /\ Events("pre") = {} /\ Events("fn") = {} /\ Events("post") = {}

\* A descriptor missing for an opcode that takes one, rejected.
C3_Witness ==
  /\ pc = "done"
  /\ HeaderOk
  /\ ~HasOtherCmsg
  /\ ArgSizes(cmd.opcode).has_fd
  /\ ~HasRights
  /\ retval = -EINVAL

\* The request failed validation: wrong header size, bad magic, unknown
\* control message, opcode out of range or descriptor mismatch.
ProtocolError == nrecv > 0 /\ ~ValidRequest
\* Growing a scratch buffer failed.
AllocError == \E i \in Events("grow") : ~log[i].ok

\* C4 as stated (well-formed reply on protocol and allocation errors): an
\* invocation that failed with a protocol error or an allocation error has
\* written a reply header with a negative result.
C4_ReplyOnError ==
  (pc = "done" /\ (ProtocolError \/ AllocError)) =>
    \E i \in Writes("hdr") : log[i].ok /\ log[i].val < 0

\* C4 amended: an invocation that fails with a protocol error returns
\* -EINVAL and one that fails with an allocation error returns -ENOMEM, and
\* in both cases nothing at all is written to the channel: no reply frame,
\* no hook, no handler, no payload read.
C4_NoReplyOnError ==
  /\ (ProtocolError \/ AllocError) => pc \in ValidationPcs \cup {"stage", "done"}
  /\ (pc = "done" /\ (ProtocolError \/ AllocError)) =>
       /\ retval = (IF ProtocolError THEN -EINVAL ELSE -ENOMEM)
       /\ Events("write") = {}
       /\ Events("read") = {}
       /\ Events("pre") = {} /\ Events("fn") = {} /\ Events("post") = {}

\* An allocation failure on a valid request, after an earlier buffer grew.
C4_Witness ==
  /\ pc = "done"
  /\ AllocError
  /\ ValidRequest
  /\ retval = -ENOMEM
  /\ \E i \in Events("grow") : log[i].ok

\* C5 (output length clamp): neither the dout_size of a reply header nor
\* the number of data-out bytes written exceeds the dout_size of the
\* request header.
C5_OutputLengthClamp ==
  /\ \A i \in Writes("hdr") : log[i].ok => log[i].n <= cmd.dout_size
  /\ \A i \in Writes("dout") : log[i].ok => log[i].n <= cmd.dout_size

\* The largest cap that rejects any size of the model.
SizeCap == MaxSize - 1

\* C6 (peer-controlled sizes are bounded): a valid request whose din_size
\* or dout_size is above the cap is rejected with a negative result before
\* any scratch buffer is grown and before any payload is read.
C6_SizesBounded ==
  (ValidRequest /\ (cmd.din_size > SizeCap \/ cmd.dout_size > SizeCap)) =>
    /\ pc \in ValidationPcs \cup {"stage", "done"}
    /\ Events("grow") = {} /\ Events("read") = {}
    /\ pc = "done" => retval < 0

\* C7 (clean shutdown): the invocation returns 0 exactly when recvmsg
\* returned 0, and then it has called nothing, grown no buffer, read no
\* payload and written nothing.
C7_CleanShutdown ==
  pc = "done" =>
    /\ (retval = 0) <=> (nrecv = 0)
    /\ retval = 0 => log = << >>

\* The peer closed the channel and the invocation reported no command.
C7_Witness == pc = "done" /\ nrecv = 0 /\ retval = 0 /\ sbuf.din.size > 0

\* C8 (malformed magic): a header of the right size with a wrong magic
\* makes the invocation return -EINVAL from the magic test, whatever the
\* opcode, the sizes and the control messages are, without reading
\* payload, growing a buffer or calling a hook or handler.
C8_MalformedMagic ==
  (nrecv = SizeofCmd /\ cmd.magic # OSSP_CMD_MAGIC) =>
    /\ pc \in {"recv", "check_size", "check_magic", "done"}
    /\ pc = "done" => (retval = -EINVAL /\ log = << >>)

\* A bad magic rejected on a request that is otherwise well formed.
C8_Witness ==
  /\ pc = "done"
  /\ nrecv = SizeofCmd
  /\ cmd.magic # OSSP_CMD_MAGIC
  /\ cmd.opcode \in action_fn_tbl
  /\ ~DescriptorMismatch
  /\ ~HasOtherCmsg
  /\ cmd.din_size > 0
  /\ retval = -EINVAL

\* C9 (descriptor is never silently dropped): when the invocation is over,
\* every descriptor that came with a full-size header went to a handler
\* exactly once.  The invocation hands the caller nothing but its
\* int return value, so the caller cannot be given the descriptor.
C9_DescriptorNeverDropped ==
  (pc = "done" /\ nrecv = SizeofCmd) =>
    \A m \in DOMAIN cmsgs : \A k \in DOMAIN cmsgs[m].fds :
      Cardinality({i \in Events("fn") : log[i].fd = cmsgs[m].fds[k]}) = 1

\* C10 (unregistered handler): when a valid request is past its payload
\* read and the table has no handler for the opcode, the result is -EINVAL,
\* no hook and no handler is called, the only write made is that of a
\* reply header with result -EINVAL and dout_size 0, and the invocation
\* ends with that header written or with a failed write.
C10_UnregisteredHandler ==
  (ValidRequest /\ cmd.opcode \notin action_fn_tbl) =>
    /\ Events("pre") = {} /\ Events("fn") = {} /\ Events("post") = {}
    /\ \A i \in Events("write") :
         log[i].sec = "hdr" /\ log[i].val = -EINVAL /\ log[i].n = 0
    /\ pc \in ReplyPcs => ret = -EINVAL
    /\ (pc = "done" /\ ~AllocError /\ \A i \in Events("read") : log[i].ok) =>
         /\ Cardinality(Writes("hdr")) = 1
         /\ retval = (IF \A i \in Writes("hdr") : log[i].ok THEN 1 ELSE -EIO)

\* A request for an opcode without handler, answered with the error reply.
C10_Witness ==
  /\ pc = "done"
  /\ ValidRequest
  /\ cmd.opcode \notin action_fn_tbl
  /\ cmd.dout_size > 0
  /\ ArgSizes(cmd.opcode).rarg_size > 0
  /\ retval = 1
  /\ \E i \in Writes("hdr") : log[i].ok /\ log[i].val = -EINVAL

\* The invocation returned 1 after a handler call with a non-negative
\* result.
HandledOk == pc = "done" /\ retval = 1 /\ \E i \in Events("fn") : log[i].val >= 0

\* C11 (round-trip framing): after a processed command whose handler
\* returned a non-negative result, the reply header's dout_size is the
\* length the handler left, exactly that many data-out bytes and exactly
\* the table's rarg_size arg-out bytes were written, and the bytes written
\* are the contents of the arg-out and data-out buffers as the handler left
\* them.
C11_RoundTrip ==
  HandledOk =>
    \A i \in Events("fn") :
      /\ \A j \in Writes("hdr") : log[j].n = log[i].n
      /\ log[i].n > 0 =>
           \E j \in Writes("dout") :
             /\ log[j].ok /\ log[j].n = log[i].n
             /\ log[j].n <= sbuf.dout.size
             /\ log[j].data = SubSeq(sbuf.dout.data, 1, log[j].n)
      /\ log[i].n = 0 => Writes("dout") = {}
      /\ ArgSizes(cmd.opcode).rarg_size > 0 =>
           \E j \in Writes("rarg") :
             /\ log[j].ok
             /\ log[j].n = ArgSizes(cmd.opcode).rarg_size
             /\ log[j].data = SubSeq(sbuf.rarg.data, 1, log[j].n)
      /\ ArgSizes(cmd.opcode).rarg_size = 0 => Writes("rarg") = {}

\* C12 (handler result pass-through): once the handler has been called and
\* the reply is built, the header's result is the value the handler
\* returned, and the reply is an error reply (dout_size 0, no arg-out and
\* no data-out bytes) exactly when that value is negative; a non-negative
\* value gives the lengths the handler and the table set.
C12_ResultPassThrough ==
  \A i \in Events("fn") :
    /\ pc \in {"write_hdr", "write_rarg", "write_dout"} =>
         /\ reply.result = log[i].val
         /\ IF log[i].val < 0
              THEN reply.dout_size = 0 /\ sizes.rarg = 0 /\ sizes.dout = 0
              ELSE /\ reply.dout_size = log[i].n
                   /\ sizes.dout = log[i].n
                   /\ sizes.rarg = ArgSizes(cmd.opcode).rarg_size
    /\ \A j \in Writes("hdr") :
         /\ log[j].val = log[i].val
         /\ log[j].n = (IF log[i].val < 0 THEN 0 ELSE log[i].n)
    /\ log[i].val < 0 => Writes("rarg") = {} /\ Writes("dout") = {}

\* Replies written for a failing handler and header in flight for a
\* succeeding one with a positive result.
C12_Witness ==
  /\ pc = "write_rarg"
  /\ \E i \in Events("fn") : log[i].val > 0 /\ log[i].n > 0
  /\ \E j \in Writes("hdr") : log[j].ok /\ log[j].val > 0

\* The kind of failure of a finished invocation, read off what was received
\* and what happened: the first that applies, "none" when none does.
FailureKind ==
  IF nrecv < 0 THEN "IOError"
  ELSE IF nrecv = 0 THEN "none"
  ELSE IF nrecv # SizeofCmd \/ cmd.magic # OSSP_CMD_MAGIC THEN "MalformedFrame"
  ELSE IF HasOtherCmsg THEN "ProtocolViolation"
  ELSE IF cmd.opcode >= OSSP_NR_OPCODES THEN "UnknownOpcode"
  ELSE IF DescriptorMismatch THEN "ProtocolViolation"
  ELSE IF AllocError THEN "OutOfMemory"
  ELSE IF \E i \in Events("read") \cup Events("write") : ~log[i].ok THEN "IOError"
  ELSE IF cmd.opcode \notin action_fn_tbl THEN "UnknownOpcode"
  ELSE "none"

\* The code by which a finished invocation reports its failure: the return
\* value when it is negative, else the result of the reply it wrote.
FailureCode == IF retval < 0 THEN retval ELSE reply.result

\* C13 as stated (error taxonomy is one-to-one): the codes of different
\* kinds differ.  A bad magic is reported as -EINVAL (C8), so no failure of
\* another kind may be reported as -EINVAL.
C13_DistinctCodes ==
  (pc = "done" /\ FailureKind \notin {"none", "MalformedFrame"}) =>
    FailureCode # -EINVAL

\* C13 amended: each kind has its code, but the codes are not distinct:
\* MalformedFrame, ProtocolViolation and UnknownOpcode (out of range, or
\* no handler registered) are all reported as -EINVAL; an allocation
\* failure is reported as -ENOMEM, a failed reply write as -EIO, a failed
\* payload read as the negative value read_fill returned and a failed
\* recvmsg as -errno.
C13_KindToCode ==
  pc = "done" =>
    /\ FailureKind \in {"MalformedFrame", "ProtocolViolation", "UnknownOpcode"}
         => FailureCode = -EINVAL
    /\ FailureKind = "OutOfMemory" => FailureCode = -ENOMEM
    /\ (\E i \in Events("write") : ~log[i].ok) => FailureCode = -EIO
    /\ \A i \in Events("read") : ~log[i].ok =>
         (FailureCode = log[i].val /\ log[i].val < 0)
    /\ nrecv < 0 => -FailureCode \in RecvErrnos
    /\ FailureKind = "none" => retval \in {0, 1}

\* An opcode out of range reported with the code of a bad magic.
C13_Witness ==
  /\ pc = "done"
  /\ FailureKind = "UnknownOpcode"
  /\ cmd.opcode >= OSSP_NR_OPCODES
  /\ retval = -EINVAL

\* The whole reply of this invocation is on the channel: the header, and
\* each section of non-zero length, written in full.
ReplyComplete ==
  /\ \E i \in Writes("hdr") : log[i].ok
  /\ sizes.rarg > 0 =>
       \E i \in Writes("rarg") : log[i].ok /\ log[i].n = sizes.rarg
  /\ sizes.dout > 0 =>
       \E i \in Writes("dout") : log[i].ok /\ log[i].n = sizes.dout

\* C14 (return value means one command processed): a finished invocation
\* returned a positive value, namely 1, exactly when its reply header,
\* arg-out section and data-out section were all written in full, whether
\* the command's result is negative or not; every other invocation
\* returned 0 or a negative value.
C14_PositiveIffReplied ==
  pc = "done" =>
    /\ (retval > 0) <=> ReplyComplete
    /\ retval > 0 => retval = 1

\* A command whose handler failed, replied to and reported as processed.
C14_Witness ==
  /\ pc = "done"
  /\ retval = 1
  /\ \E i \in Events("fn") : log[i].val < 0
  /\ \E i \in Writes("hdr") : log[i].ok /\ log[i].val < 0

\* Positions of the reads of one section.
Reads(sec) == {i \in Events("read") : log[i].sec = sec}
\* Positions of the hook and handler calls.
Calls == Events("pre") \cup Events("fn") \cup Events("post")

\* C15 (payload is complete before dispatch): every call of the acquire
\* hook or the handler comes after a full read of the fixed-arg-in section
\* when the table gives it a non-zero size and after a full read of the
\* data-in section when din_size is non-zero, the first read before the
\* second; and a failed read is the last thing the invocation does: it
\* returns read_fill's negative value, having called no hook or handler
\* and written nothing.
C15_PayloadBeforeDispatch ==
  /\ \A i \in Events("pre") \cup Events("fn") :
       /\ ArgSizes(cmd.opcode).carg_size > 0 =>
            \E j \in Reads("carg") :
              j < i /\ log[j].ok /\ log[j].n = ArgSizes(cmd.opcode).carg_size
       /\ cmd.din_size > 0 =>
            \E j \in Reads("din") :
              j < i /\ log[j].ok /\ log[j].n = cmd.din_size
  /\ \A j \in Reads("carg"), k \in Reads("din") : j < k
  /\ \A j \in Events("read") :
       ~log[j].ok =>
         /\ pc = "done"
         /\ j = Len(log)
         /\ retval = log[j].val
         /\ retval < 0
         /\ Calls = {}
         /\ Events("write") = {}

\* A handler called on a request with both input sections, both read.
C15_Witness ==
  /\ Events("fn") # {}
  /\ \E j \in Reads("carg") : log[j].ok /\ log[j].n > 0
  /\ \E j \in Reads("din") : log[j].ok /\ log[j].n > 0

\* C16 (reply ordering and write failure): the writes of an invocation are
\* made in the order header, arg-out, data-out, at most one of each, every
\* one of them after all hook and handler calls and, when the handler was
\* called, after the release hook; a section is written only after the
\* ones before it were written in full; and a failed write is the last
\* thing the invocation does, which then returns -EIO.
C16_ReplyOrdering ==
  LET writes == Events("write")
      hdr == {i \in writes : log[i].sec = "hdr"}
      rarg == {i \in writes : log[i].sec = "rarg"}
      dout == {i \in writes : log[i].sec = "dout"}
  IN
    /\ Cardinality(hdr) <= 1
    /\ Cardinality(rarg) <= 1
    /\ Cardinality(dout) <= 1
    /\ \A i \in hdr, j \in rarg \cup dout : i < j /\ log[i].ok
    /\ \A i \in rarg, j \in dout : i < j /\ log[i].ok
    /\ \A i \in writes :
         /\ \A c \in Calls : c < i
         /\ Events("fn") # {} => \E c \in Events("post") : c < i
         /\ ~log[i].ok =>
              (pc = "done" /\ i = Len(log) /\ retval = -EIO)
    /\ writes = hdr \cup rarg \cup dout

\* A reply with all three sections on the channel after a handler call.
C16_Witness ==
  /\ pc = "done"
  /\ retval = 1
  /\ Events("post") # {}
  /\ \E i \in Writes("hdr"), j \in Writes("rarg"), k \in Writes("dout") :
       log[i].ok /\ log[j].ok /\ log[k].ok

\* C17 (allocation failure aborts before reading): when a call of
\* ensure_sbuf_size fails, for whichever of the four buffers, that is the
\* last thing the invocation does: it returns -ENOMEM, having read no
\* payload byte, called no hook and no handler and written nothing.
C17_AllocFailureAborts ==
  \A i \in Events("grow") :
    ~log[i].ok =>
      /\ pc = "done"
      /\ i = Len(log)
      /\ retval = -ENOMEM
      /\ Events("read") = {}
      /\ Calls = {}
      /\ Events("write") = {}

\* The last of the four allocations failing on a request that has payload
\* to read.
C17_Witness ==
  /\ pc = "done"
  /\ retval = -ENOMEM
  /\ \E i \in Events("grow") : ~log[i].ok /\ log[i].sec = "dout"
  /\ \E i \in Events("grow") : log[i].ok /\ log[i].sec = "din"
  /\ ArgSizes(cmd.opcode).carg_size > 0

BufNames == {"carg", "din", "rarg", "dout"}

\* The section sizes of the request, as lines 138-141 compute them.
RequestSizes ==
  [carg |-> ArgSizes(cmd.opcode).carg_size,
   din |-> cmd.din_size,
   rarg |-> ArgSizes(cmd.opcode).rarg_size,
   dout |-> cmd.dout_size]

\* This invocation passed buffer staging.
PassedStaging ==
  /\ ValidRequest
  /\ ~AllocError
  /\ pc \notin ValidationPcs \cup {"idle", "stage"}

\* C18 (buffer monotonicity across calls): no step, within an invocation
\* or from one to the next, lowers the capacity of a scratch buffer;
\* buffer staging leaves a buffer alone, with no reallocation, when the
\* section size asked of it is at most its capacity; and once an
\* invocation has passed staging every buffer's capacity is at least the
\* section size it staged.  Capacities never going down, each is then at
\* least the largest size staged into it by any invocation so far.
C18_BufferMonotonicity ==
  /\ [][\A b \in BufNames : sbuf'[b].size >= sbuf[b].size]_vars
  /\ [][pc = "stage" =>
          \A b \in BufNames :
            sizes[b] <= sbuf[b].size =>
              /\ sbuf'[b].size = sbuf[b].size
              /\ \A i \in DOMAIN log' :
                   ~(log'[i].ev = "grow" /\ log'[i].sec = b)]_vars
  /\ [](PassedStaging => \A b \in BufNames : sbuf[b].size >= RequestSizes[b])

\* A request staged into a data-out buffer that an earlier call had grown
\* beyond its size: nothing is reallocated for it.
C18_Witness ==
  /\ pc = "read_carg"
  /\ sizes.dout > 0
  /\ sizes.dout < sbuf.dout.size
  /\ \A i \in Events("grow") : log[i].sec # "dout"

\* Payload bytes of one section taken from the channel by this invocation
\* (each section is read at most once).
BytesRead(sec) ==
  IF Reads(sec) = {} THEN 0 ELSE log[CHOOSE i \in Reads(sec) : TRUE].n

\* C19 (channel stays byte-aligned): an invocation that returned a positive
\* value received a full header and took from the channel, after it,
\* exactly the table's carg_size bytes and then exactly din_size bytes.
C19_ByteAligned ==
  /\ Cardinality(Reads("carg")) <= 1
  /\ Cardinality(Reads("din")) <= 1
  /\ (pc = "done" /\ retval > 0) =>
       /\ nrecv = SizeofCmd
       /\ BytesRead("carg") = ArgSizes(cmd.opcode).carg_size
       /\ BytesRead("din") = cmd.din_size
       /\ \A i \in Events("read") : log[i].sec \in {"carg", "din"}

\* A processed command without fixed-arg-in but with a data-in section and
\* a fixed-arg-out section.
C19_Witness ==
  /\ pc = "done"
  /\ retval > 0
  /\ ArgSizes(cmd.opcode).carg_size = 0
  /\ ArgSizes(cmd.opcode).rarg_size > 0
  /\ cmd.din_size > 0
  /\ BytesRead("din") = cmd.din_size

\* C20 (payload only from a handler that ran): an arg-out or data-out
\* section is written only in an invocation in which the handler was
\* called.
C20_PayloadOnlyFromHandler ==
  \A i \in Writes("rarg") \cup Writes("dout") :
    log[i].ok => Events("fn") # {}
====
